---- MODULE Spec2Model ----
(***************************************************************************)
(* Verification model of ACCES-CoExSiST (python package `coexist`).        *)
(*                                                                         *)
(*  - the Epoch Driver of coexist.Access (ask / dispatch / barrier /       *)
(*    score / tell / persist / resume). coexist/__init__.py imports it     *)
(*    from coexist/optimisation.py, whose source is not available; the     *)
(*    driver follows the design document, sections 3, 4.3, 4.4, 4.5, 5;    *)
(*  - the Run Reader, coexist/utilities.py (AccessData.read,               *)
(*    find_access_path);                                                   *)
(*  - the Parameters table constructor, coexist/base.py.                   *)
(***************************************************************************)
EXTENDS Integers, Sequences, FiniteSets, TLC

VARIABLES
    \* ---- Epoch Driver (coexist.Access.learn) ----
    pc,          \* state of the Epoch Driver state machine
    epoch,       \* index of the epoch being run
    solutions,   \* parameter vectors returned by the optimiser's ask, in ask order
    jobs,        \* per-candidate job state: "created", "running", "done"
    results,     \* per-candidate evaluator result, or NoResult
    scores,      \* scalar error per candidate, after Scoring
    es,          \* the evolutionary-strategy optimiser as seen through ask/tell
    historyRows, \* the raw history table on disk: one row per persisted candidate
    written,     \* rows of the current epoch appended so far by this process
    restarts,    \* number of times the run was interrupted and restarted
    arrival,     \* candidate indices of the epoch in the order their results arrived
    \* ---- Parameters (coexist.Parameters) ----
    pArgs,       \* arguments of the last Parameters(...) call
    pTable,      \* what the call produced: the table, or the error raised
    \* ---- Run Reader (coexist.AccessData) ----
    fs,          \* the file system: where the run directory is and what it holds
    rdView,      \* outcome of the last AccessData.read(path)
    ctorView,    \* outcome of the last AccessData(path)
    fpCalls,     \* the find_access_path calls made: argument and outcome of each
    \* ---- Simulation (coexist.Simulation) ----
    simObj,      \* the Simulation object: _verbose, _step_size, parameters
    lmp,         \* the LIGGGHTS instance behind it: dt, time, timestep, variables
    simCmds,     \* the commands the last call sent to the LIGGGHTS instance
    simCall,     \* the last call: what was called, with what, on what, how it ended
    simCalls     \* number of calls made on the object since its construction

drvVars == <<pc, epoch, solutions, jobs, results, scores, es, historyRows, written,
             restarts, arrival>>

parVars == <<pArgs, pTable>>

rdVars == <<fs, rdView, ctorView>>

fndVars == <<fpCalls>>

simVars == <<simObj, lmp, simCmds, simCall, simCalls>>

\* the state outside the Epoch Driver, the Parameters constructor, the Run Reader
nonDrvVars == <<parVars, rdVars, fndVars, simVars>>
nonParVars == <<drvVars, rdVars, fndVars, simVars>>
nonRdVars == <<drvVars, parVars, fndVars, simVars>>
nonFndVars == <<drvVars, parVars, simVars>>
nonSimVars == <<drvVars, parVars, rdVars, fndVars>>

vars == <<drvVars, parVars, rdVars, fndVars, simVars>>

----------------------------------------------------------------------------
(* Bounds of the model *)

\* population size of one epoch (num_solutions)
NumSolutions == 2
\* epoch budget of a run
MaxEpochs == 2
\* number of interruptions explored
MaxRestarts == 1

----------------------------------------------------------------------------
(* Epoch Driver *)

Candidates == 1..NumSolutions

\* The penalty sentinel of a crashed candidate: large, finite.
Penalty == 1000

NoResult == [raw |-> <<>>, crashed |-> FALSE, none |-> TRUE]

\* ask(population size) -> ordered vectors; a vector is identified by a number.
Ask(e) == [i \in Candidates |-> e * NumSolutions + i]

\* The candidate script's objective: a two-element error vector.
Objective(x) == <<x * x, x + 1>>

\* a crash whose result carries no sentinel (the missing result read as 0)
EvaluatorResultNoSentinel(x, outcome) ==
    IF outcome = "success"
    THEN [raw |-> Objective(x), crashed |-> FALSE, none |-> FALSE]
    ELSE [raw |-> <<0>>, crashed |-> TRUE, none |-> FALSE]

\* Candidate Evaluator boundary: success carries the objective's error,
\* crash carries the penalty sentinel and crashed = true.
EvaluatorResult(x, outcome) ==
    IF outcome = "success"
    THEN [raw |-> Objective(x), crashed |-> FALSE, none |-> FALSE]
    ELSE [raw |-> <<Penalty>>, crashed |-> TRUE, none |-> FALSE]

RECURSIVE SumSeq(_)
SumSeq(s) == IF s = <<>> THEN 0 ELSE Head(s) + SumSeq(Tail(s))

\* Scoring: the combiner reducing an error vector to one scalar.
Combine(r) == IF r.none THEN -1 ELSE SumSeq(r.raw)

\* results collected in the order they arrive
StoreResultArrival(rs, i, r) ==
    LET free == {j \in DOMAIN rs : rs[j].none}
        slot == CHOOSE j \in free : \A k \in free : j <= k
    IN  [rs EXCEPT ![slot] = r]

\* A result is stored in the slot of the candidate it belongs to.
StoreResult(rs, i, r) == [rs EXCEPT ![i] = r]

AllDone == \A i \in Candidates : jobs[i] = "done"

Running == {"Initializing", "AskingPopulation", "DispatchingCandidates",
            "AwaitingEpochBarrier", "Scoring", "TellingOptimiser",
            "Persisting", "CheckingTermination"}

NoJobs == [i \in Candidates |-> "none"]
NoResults == [i \in Candidates |-> NoResult]

\* no resume detection: every start begins at epoch 0
ResumeEpochNone(h) == 0

\* resume-time epoch arithmetic: the whole epochs on disk; a half-written
\* trailing epoch is not counted
ResumeEpoch(h) == Len(h) \div NumSolutions

InitDriver ==
    /\ pc = "Initializing"
    /\ epoch = 0
    /\ solutions = <<>>
    /\ jobs = NoJobs
    /\ results = NoResults
    /\ scores = <<>>
    /\ es = [asked |-> 0, told |-> 0, X |-> <<>>, E |-> <<>>]
    /\ historyRows = <<>>
    /\ written = 0
    /\ restarts = 0
    /\ arrival = <<>>

\* Initializing: build or resume; reseed the optimiser's count from the disk.
Initialize ==
    /\ pc = "Initializing"
    /\ epoch' = ResumeEpoch(historyRows)
    /\ es' = [asked |-> ResumeEpoch(historyRows), told |-> ResumeEpoch(historyRows),
              X |-> <<>>, E |-> <<>>]
    /\ pc' = IF ResumeEpoch(historyRows) >= MaxEpochs
             THEN "BudgetExhausted" ELSE "AskingPopulation"
    /\ UNCHANGED <<solutions, jobs, results, scores, historyRows, written,
                   restarts, arrival>>
    /\ UNCHANGED nonDrvVars

AskPopulation ==
    /\ pc = "AskingPopulation"
    /\ solutions' = Ask(epoch)
    /\ es' = [es EXCEPT !.asked = @ + 1]
    /\ jobs' = [i \in Candidates |-> "created"]
    /\ results' = NoResults
    /\ scores' = <<>>
    /\ written' = 0
    /\ arrival' = <<>>
    /\ pc' = "DispatchingCandidates"
    /\ UNCHANGED <<epoch, historyRows, restarts>>
    /\ UNCHANGED nonDrvVars

\* fire-and-forget submission of one candidate
Dispatch(i) ==
    /\ pc = "DispatchingCandidates"
    /\ jobs[i] = "created"
    /\ jobs' = [jobs EXCEPT ![i] = "running"]
    /\ pc' = IF \A j \in Candidates \ {i} : jobs[j] # "created"
             THEN "AwaitingEpochBarrier" ELSE "DispatchingCandidates"
    /\ UNCHANGED <<epoch, solutions, results, scores, es, historyRows, written,
                   restarts, arrival>>
    /\ UNCHANGED nonDrvVars

\* the job could not be submitted at all: fatal for the run
SubmitFail(i) ==
    /\ pc = "DispatchingCandidates"
    /\ jobs[i] = "created"
    /\ pc' = "Aborted"
    /\ UNCHANGED <<epoch, solutions, jobs, results, scores, es, historyRows,
                   written, restarts, arrival>>
    /\ UNCHANGED nonDrvVars

\* a dispatched candidate finishes, in any order, by success or by crash
Finish(i, outcome) ==
    /\ pc \in {"DispatchingCandidates", "AwaitingEpochBarrier"}
    /\ jobs[i] = "running"
    /\ jobs' = [jobs EXCEPT ![i] = "done"]
    /\ results' = StoreResult(results, i, EvaluatorResult(solutions[i], outcome))
    /\ arrival' = Append(arrival, i)
    /\ UNCHANGED <<pc, epoch, solutions, scores, es, historyRows, written,
                   restarts>>
    /\ UNCHANGED nonDrvVars

\* a barrier that opens on the first result
BarrierOpenAny == \E i \in Candidates : jobs[i] = "done"

\* the hard barrier
BarrierOpen == AllDone

AwaitBarrier ==
    /\ pc = "AwaitingEpochBarrier"
    /\ BarrierOpen
    /\ pc' = "Scoring"
    /\ UNCHANGED <<epoch, solutions, jobs, results, scores, es, historyRows,
                   written, restarts, arrival>>
    /\ UNCHANGED nonDrvVars

Score ==
    /\ pc = "Scoring"
    /\ scores' = [i \in Candidates |-> Combine(results[i])]
    /\ pc' = "TellingOptimiser"
    /\ UNCHANGED <<epoch, solutions, jobs, results, es, historyRows, written,
                   restarts, arrival>>
    /\ UNCHANGED nonDrvVars

Tell ==
    /\ pc = "TellingOptimiser"
    /\ es' = [es EXCEPT !.told = @ + 1, !.X = solutions, !.E = scores]
    /\ pc' = "Persisting"
    /\ UNCHANGED <<epoch, solutions, jobs, results, scores, historyRows, written,
                   restarts, arrival>>
    /\ UNCHANGED nonDrvVars

Row(i) == [epoch |-> epoch, index |-> i, x |-> solutions[i],
           raw |-> results[i].raw, error |-> scores[i],
           crashed |-> results[i].crashed]

\* where the next row of the epoch goes: after the rows of the whole epochs
\* and the rows this process already appended
RowOffset(e, w) == e * NumSolutions + w

\* append one row of the completed epoch; rows a cut-off earlier attempt left
\* behind of this same epoch are not whole-epoch rows and give way to it
PersistRow ==
    /\ pc = "Persisting"
    /\ written < NumSolutions
    /\ historyRows' = Append(SubSeq(historyRows, 1, RowOffset(epoch, written)),
                         Row(written + 1))
    /\ written' = written + 1
    /\ pc' = IF written + 1 = NumSolutions
             THEN "CheckingTermination" ELSE "Persisting"
    /\ UNCHANGED <<epoch, solutions, jobs, results, scores, es, restarts,
                   arrival>>
    /\ UNCHANGED nonDrvVars

CheckTermination ==
    /\ pc = "CheckingTermination"
    /\ \E converged \in BOOLEAN :
          pc' = IF converged THEN "Converged"
                ELSE IF epoch + 1 >= MaxEpochs THEN "BudgetExhausted"
                ELSE "AskingPopulation"
    /\ epoch' = epoch + 1
    /\ UNCHANGED <<solutions, jobs, results, scores, es, historyRows, written,
                   restarts, arrival>>
    /\ UNCHANGED nonDrvVars

\* external interruption: everything but the disk is lost
Interrupt ==
    /\ pc \in Running
    /\ restarts < MaxRestarts
    /\ pc' = "Interrupted"
    /\ epoch' = 0
    /\ solutions' = <<>>
    /\ jobs' = NoJobs
    /\ results' = NoResults
    /\ scores' = <<>>
    /\ es' = [asked |-> 0, told |-> 0, X |-> <<>>, E |-> <<>>]
    /\ written' = 0
    /\ arrival' = <<>>
    /\ UNCHANGED <<historyRows, restarts>>
    /\ UNCHANGED nonDrvVars

Restart ==
    /\ pc = "Interrupted"
    /\ pc' = "Initializing"
    /\ restarts' = restarts + 1
    /\ UNCHANGED <<epoch, solutions, jobs, results, scores, es, historyRows,
                   written, arrival>>
    /\ UNCHANGED nonDrvVars

NextDriver ==
    \/ Initialize
    \/ AskPopulation
    \/ \E i \in Candidates : Dispatch(i)
    \/ \E i \in Candidates : SubmitFail(i)
    \/ \E i \in Candidates, o \in {"success", "crash"} : Finish(i, o)
    \/ AwaitBarrier
    \/ Score
    \/ Tell
    \/ PersistRow
    \/ CheckTermination
    \/ Interrupt
    \/ Restart

----------------------------------------------------------------------------
(* Parameters.__init__ (src/coexist/base.py) *)

\* longest argument list of a Parameters(...) call
MaxLen == 2

\* Floats are counted in units of 1/Scale, so that 0.2 * x is exact: 0.2 = 1/Scale.
Scale == 5

\* python values: None, or the number k
None == [none |-> TRUE, k |-> 0]
Num(k) == [none |-> FALSE, k |-> k]

\* numpy floats: NaN, or v / Scale
NaN == [nan |-> TRUE, v |-> 0]
Float(k) == [nan |-> FALSE, v |-> k * Scale]

\* np.array(xs, dtype = float): None becomes NaN
AsFloatArray(xs) ==
    [i \in DOMAIN xs |-> IF xs[i].none THEN NaN ELSE Float(xs[i].k)]

\* a bound check that lets min = max through
FloatGeStrict(a, b) == ~a.nan /\ ~b.nan /\ a.v > b.v

\* a >= b on floats: false when either is NaN
FloatGe(a, b) == ~a.nan /\ ~b.nan /\ a.v >= b.v

FloatSub(a, b) ==
    IF a.nan \/ b.nan THEN NaN ELSE [nan |-> FALSE, v |-> a.v - b.v]

FloatAdd(a, b) ==
    IF a.nan \/ b.nan THEN NaN ELSE [nan |-> FALSE, v |-> a.v + b.v]

\* 0.2 * a
FloatTimes02(a) == IF a.nan THEN NaN ELSE [nan |-> FALSE, v |-> a.v \div Scale]

\* a default sigma taken from the sum of the bounds
DefaultSigmaSum(minimums, maximums) ==
    [i \in DOMAIN minimums |-> FloatTimes02(FloatAdd(maximums[i], minimums[i]))]

\* sigma0 = 0.2 * (maximums - minimums)
DefaultSigma(minimums, maximums) ==
    [i \in DOMAIN minimums |-> FloatTimes02(FloatSub(maximums[i], minimums[i]))]

\* A command template is a sequence of tokens: "${", "}", " " and runs of
\* word characters (every other token).
IsWord(t) == t \notin {"${", "}", " "}

\* re.search("\$\{\w+\}", cmd) is not None
HasPlaceholder(cmd) ==
    \E i, j \in DOMAIN cmd :
       /\ cmd[i] = "${"
       /\ j > i + 1
       /\ cmd[j] = "}"
       /\ \A k \in (i + 1)..(j - 1) : IsWord(cmd[k])

ValueError(msg) ==
    [status |-> "ValueError", msg |-> msg, index |-> <<>>, command |-> <<>>,
     value |-> <<>>, min |-> <<>>, max |-> <<>>, sigma |-> <<>>]

NoTable ==
    [status |-> "none", msg |-> "", index |-> <<>>, command |-> <<>>,
     value |-> <<>>, min |-> <<>>, max |-> <<>>, sigma |-> <<>>]

\* pd.DataFrame.__init__(self, parameters, index = variables)
DataFrame(index, command, value, min, max, sigma) ==
    [status |-> "ok", msg |-> "", index |-> index, command |-> command,
     value |-> value, min |-> min, max |-> max, sigma |-> sigma]

\* Parameters.__init__; sigma0 is [none |-> TRUE] or [none |-> FALSE, list |-> ...]
ParametersInit(variables, commands, initial_values, minimums, maximums, sigma0) ==
    IF ~(/\ Len(variables) = Len(commands)
         /\ Len(commands) = Len(initial_values)
         /\ Len(initial_values) = Len(minimums)
         /\ Len(minimums) = Len(maximums))
    THEN ValueError("same length")
    ELSE
    LET values == AsFloatArray(initial_values)
        mins == AsFloatArray(minimums)
        maxs == AsFloatArray(maximums)
    IN  IF \E i \in DOMAIN mins : FloatGe(mins[i], maxs[i])
        THEN ValueError("maximums smaller or equal than minimums")
        ELSE IF ~sigma0.none /\ Len(sigma0.list) # Len(variables)
        THEN ValueError("sigma0 length")
        ELSE IF \E c \in DOMAIN commands : ~HasPlaceholder(commands[c])
        THEN ValueError("commands placeholder")
        ELSE DataFrame(variables, commands, values, mins, maxs,
                       IF sigma0.none THEN DefaultSigma(mins, maxs)
                       ELSE AsFloatArray(sigma0.list))

(* the arguments explored *)

ParamNames == <<"corPP", "corPW", "corPW2", "youngmodP", "poissP">>

\* n names, in the order of ParamNames or reversed
NameSeqs(n) == { [i \in 1..n |-> ParamNames[i]],
                 [i \in 1..n |-> ParamNames[n + 1 - i]] }

GoodCommand(i) == <<"fix", " ", "${", ParamNames[i], "}", " ", "${", "corPW2", "}">>
BadCommands == { <<"fix", " ", "m1">>, <<"fix", " ", "${", "}">>,
                 <<"fix", " ", "${", "corPP", " ", "}">> }

\* n command templates, at most one of them without a placeholder
CommandSeqs(n) ==
    { [i \in 1..n |-> GoodCommand(i)] } \cup
    { [i \in 1..n |-> IF i = b THEN c ELSE GoodCommand(i)] :
          b \in 1..n, c \in BadCommands }

SeqsOfLen(S, n) == [1..n -> S]

MinChoices == {None, Num(0), Num(1)}
MaxChoices == {None, Num(1), Num(3)}

\* sigma0: None, or m numbers
Sigma0Choices(m) ==
    { [none |-> TRUE, list |-> <<>>],
      [none |-> FALSE, list |-> [i \in 1..m |-> Num(i)]] }

NoArgs == [variables |-> <<>>, commands |-> <<>>, initial_values |-> <<>>,
           minimums |-> <<>>, maximums |-> <<>>,
           sigma0 |-> [none |-> TRUE, list |-> <<>>], called |-> FALSE]

InitParameters ==
    /\ pArgs = NoArgs
    /\ pTable = NoTable

ArgNames == {"variables", "commands", "initial_values", "minimums", "maximums",
             "sigma0"}

\* Parameters(variables, commands, initial_values, minimums, maximums, sigma0)
\* with lists of length n, except that the list `odd`, if any, has length m;
\* the one call that constructs the object
Construct(n, odd, m) ==
    LET L(a) == IF a = odd THEN m ELSE n IN
    /\ ~pArgs.called
    /\ \E variables \in NameSeqs(L("variables")),
          commands \in CommandSeqs(L("commands")),
          minimums \in SeqsOfLen(MinChoices, L("minimums")),
          maximums \in SeqsOfLen(MaxChoices, L("maximums")),
          sigma0 \in Sigma0Choices(L("sigma0")) :
          LET initial_values == [i \in 1..L("initial_values") |-> Num(i)] IN
          /\ pArgs' = [variables |-> variables, commands |-> commands,
                       initial_values |-> initial_values, minimums |-> minimums,
                       maximums |-> maximums, sigma0 |-> sigma0, called |-> TRUE]
          /\ pTable' = ParametersInit(variables, commands, initial_values,
                                      minimums, maximums, sigma0)
    /\ UNCHANGED nonParVars

NextParameters ==
    \E n \in 0..MaxLen, odd \in ArgNames \cup {"none"}, m \in 0..MaxLen :
       /\ (odd = "none") = (m = n)
       /\ Construct(n, odd, m)

----------------------------------------------------------------------------
(* Run Reader: AccessData.read and find_access_path (src/coexist/utilities.py) *)

\* most rows a history table holds
MaxRows == 5

(* Strings are sequences of tokens. The tokens "access_info", "_", ".pickle",
   "opt_history", ".csv", "scaled", "/", "." and the digits are the pieces the
   code's patterns are made of; every other token is a run of other text. *)

StartsWith(str, prefix) ==
    Len(str) >= Len(prefix) /\ SubSeq(str, 1, Len(prefix)) = prefix

Digits == <<"0", "1", "2", "3", "4", "5", "6", "7", "8", "9">>
IsDigit(t) == \E d \in DOMAIN Digits : Digits[d] = t
DigitValue(t) == (CHOOSE d \in DOMAIN Digits : Digits[d] = t) - 1

RECURSIVE Decimal(_)
Decimal(str) ==
    IF str = <<>> THEN 0
    ELSE 10 * Decimal(SubSeq(str, 1, Len(str) - 1)) + DigitValue(str[Len(str)])

\* int(str): the number, or ValueError
int(str) ==
    IF str # <<>> /\ \A i \in DOMAIN str : IsDigit(str[i])
    THEN [ok |-> TRUE, val |-> Decimal(str)]
    ELSE [ok |-> FALSE, val |-> 0]

\* os.path.join(a, b), b relative and a not empty
join(a, b) == a \o <<"/">> \o b

\* str.split(".csv")[0]: the text before the first ".csv"
SplitCsvHead(str) ==
    IF \E i \in DOMAIN str : str[i] = ".csv"
    THEN LET i == CHOOSE i \in DOMAIN str :
                     str[i] = ".csv" /\ \A j \in 1..(i - 1) : str[j] # ".csv"
         IN  SubSeq(str, 1, i - 1)
    ELSE str

\* re.split(r"opt_history_|\.csv", str), from position i, piece cur in progress
RECURSIVE ReSplitFrom(_, _, _)
ReSplitFrom(str, i, cur) ==
    IF i > Len(str) THEN <<cur>>
    ELSE IF str[i] = ".csv" THEN <<cur>> \o ReSplitFrom(str, i + 1, <<>>)
    ELSE IF str[i] = "opt_history" /\ i < Len(str) /\ str[i + 1] = "_"
         THEN <<cur>> \o ReSplitFrom(str, i + 2, <<>>)
    ELSE ReSplitFrom(str, i + 1, Append(cur, str[i]))

ReSplit(str) == ReSplitFrom(str, 1, <<>>)

\* history_finder.search(f), history_finder = r"opt_history_[0-9]+\.csv"
history_finder(f) ==
    \E i, j \in DOMAIN f :
       /\ f[i] = "opt_history"
       /\ i + 1 \in DOMAIN f /\ f[i + 1] = "_"
       /\ j > i + 2
       /\ f[j] = ".csv"
       /\ \A k \in (i + 2)..(j - 1) : IsDigit(f[k])

(* The file system. fs.parent is the directory (relative to the working
   directory, <<".">> for the working directory itself) that holds the run
   directory fs.name; the run directory holds the metadata snapshot and, for
   every population size in fs.pops, a raw and a scaled history table, and
   then the entries of fs.extra (each a name, and whether it is a directory,
   which is then empty). *)

AccessInfoPrefix == <<"access_info", "_">>
PickleName == <<"access_info", ".pickle">>
HistoryName(n) == <<"opt_history", "_", Digits[n + 1], ".csv">>
HistoryScaledName(n) == <<"opt_history", "_", Digits[n + 1], "_", "scaled", ".csv">>

\* a path without its leading "./"; the working directory is <<>>
Canon(path) ==
    IF path = <<".">> THEN <<>>
    ELSE IF StartsWith(path, <<".", "/">>) THEN SubSeq(path, 3, Len(path))
    ELSE path

RunPath(f) == join(f.parent, f.name)

\* names of the run directory's entries, in the order os.listdir gives them
RunEntries(f) ==
    LET lo == CHOOSE n \in f.pops : \A m \in f.pops : n <= m
        hi == CHOOSE n \in f.pops : \A m \in f.pops : n >= m
        one(n) == <<HistoryName(n), HistoryScaledName(n)>>
        up == <<PickleName>> \o one(lo) \o (IF hi = lo THEN <<>> ELSE one(hi))
                 \o [i \in DOMAIN f.extra |-> f.extra[i].name]
    IN  IF f.reversed THEN [i \in DOMAIN up |-> up[Len(up) + 1 - i]] ELSE up

\* os.listdir(path): the entry names, or FileNotFoundError
listdir(f, path) ==
    IF Canon(path) = Canon(f.parent)
    THEN [ok |-> TRUE,
          names |-> IF f.reversed THEN <<f.name, <<"notes">>>>
                    ELSE <<<<"notes">>, f.name>>]
    ELSE IF Canon(path) = Canon(RunPath(f))
    THEN [ok |-> TRUE, names |-> RunEntries(f)]
    ELSE IF \E i \in DOMAIN f.extra :
               f.extra[i].isdir /\ Canon(path) = Canon(join(RunPath(f), f.extra[i].name))
    THEN [ok |-> TRUE, names |-> <<>>]
    ELSE [ok |-> FALSE, names |-> <<>>]

Columns(f) == 2 * Len(f.snapshot.parameters) + 2

\* the file at `path`: a history table (its kind, population size and size),
\* the snapshot, or nothing
FileAt(f, path) ==
    LET run == Canon(RunPath(f))
        name == SubSeq(Canon(path), Len(run) + 2, Len(Canon(path)))
        inRun == StartsWith(Canon(path), run \o <<"/">>)
    IN  IF inRun /\ \E n \in f.pops : name = HistoryName(n)
        THEN [exists |-> TRUE, kind |-> "raw",
              pop |-> CHOOSE n \in f.pops : name = HistoryName(n),
              rows |-> f.rows[CHOOSE n \in f.pops : name = HistoryName(n)],
              cols |-> Columns(f)]
        ELSE IF inRun /\ \E n \in f.pops : name = HistoryScaledName(n)
        THEN [exists |-> TRUE, kind |-> "scaled",
              pop |-> CHOOSE n \in f.pops : name = HistoryScaledName(n),
              rows |-> f.rows_scaled[CHOOSE n \in f.pops : name = HistoryScaledName(n)],
              cols |-> Columns(f)]
        ELSE IF inRun /\ name = PickleName
        THEN [exists |-> TRUE, kind |-> "pickle", pop |-> 0, rows |-> 0, cols |-> 0]
        ELSE [exists |-> FALSE, kind |-> "", pop |-> 0, rows |-> 0, cols |-> 0]

\* find_access_path(path): the path itself, a child found by its prefix, or
\* FileNotFoundError from os.listdir
find_access_path(f, path) ==
    IF StartsWith(path, AccessInfoPrefix)
    THEN [ok |-> TRUE, path |-> path]
    ELSE LET ls == listdir(f, path)
             hits == {i \in DOMAIN ls.names : StartsWith(ls.names[i], AccessInfoPrefix)}
         IN  IF ~ls.ok THEN [ok |-> FALSE, path |-> path]
             ELSE IF hits # {}
             THEN [ok |-> TRUE,
                   path |-> join(path, ls.names[CHOOSE i \in hits : \A j \in hits : i <= j])]
             ELSE [ok |-> TRUE, path |-> path]

NoFrame == [kind |-> "", pop |-> 0, rows |-> 0]

Failed(path, error) ==
    [called |-> TRUE, path |-> path, status |-> error, parameters |-> <<>>,
     num_solutions |-> 0, target_sigma |-> 0, random_seed |-> 0,
     results |-> NoFrame, results_scaled |-> NoFrame, num_epochs |-> 0]

NotCalled ==
    [called |-> FALSE, path |-> <<>>, status |-> "", parameters |-> <<>>,
     num_solutions |-> 0, target_sigma |-> 0, random_seed |-> 0,
     results |-> NoFrame, results_scaled |-> NoFrame, num_epochs |-> 0]

\* np.loadtxt(path): one row or none gives a 1-D array, else a 2-D one
loadtxt(f, path) ==
    LET file == FileAt(f, path) IN
    [ok |-> file.exists,
     ndim |-> IF file.rows >= 2 THEN 2 ELSE 1,
     len |-> IF file.rows = 1 THEN file.cols ELSE file.rows,
     cols |-> file.cols, kind |-> file.kind, pop |-> file.pop]

\* pd.DataFrame(data = array, columns = results_columns): the shapes must agree
DataFrameFits(array, ncolumns) == array.ndim = 2 /\ array.cols = ncolumns

\* the attrs-generated AccessData.__init__: one argument per attribute
AccessDataFields == <<"parameters", "num_solutions", "target_sigma", "random_seed",
                      "results", "results_scaled", "num_epochs">>

\* AccessData(*args)
AccessData(path, args) ==
    IF Len(args) # Len(AccessDataFields)
    THEN Failed(path, "TypeError")
    ELSE [called |-> TRUE, path |-> path, status |-> "ok", parameters |-> args[1],
          num_solutions |-> args[2], target_sigma |-> args[3],
          random_seed |-> args[4], results |-> args[5],
          results_scaled |-> args[6], num_epochs |-> args[7]]

\* AccessData.read(access_path)
AccessData_read(f, path) ==
    LET found == find_access_path(f, path)
        access_path == found.path
        ls == listdir(f, access_path)
        hits == {i \in DOMAIN ls.names : history_finder(ls.names[i])}
        \* the loop keeps the last match
        last == CHOOSE i \in hits : \A j \in hits : i >= j
        history_path == join(access_path, ls.names[last])
        history_scaled_path == SplitCsvHead(history_path) \o <<"_", "scaled", ".csv">>
        \* int(...) is evaluated for every match, in listing order
        bad == \E i \in hits : ~int(ReSplit(join(access_path, ls.names[i]))[2]).ok
        num_solutions == int(ReSplit(history_path)[2]).val
        pickle == FileAt(f, join(access_path, PickleName))
        access_info == f.snapshot
        history == loadtxt(f, history_path)
        history_scaled == loadtxt(f, history_scaled_path)
        ncolumns == 2 * Len(access_info.parameters) + 2
    IN  IF ~found.ok \/ ~ls.ok THEN Failed(path, "FileNotFoundError")
        ELSE IF bad THEN Failed(path, "ValueError")
        ELSE IF ~pickle.exists THEN Failed(path, "FileNotFoundError")
        ELSE IF hits = {} THEN Failed(path, "UnboundLocalError")
        ELSE IF ~history.ok \/ ~history_scaled.ok THEN Failed(path, "FileNotFoundError")
        ELSE IF ~DataFrameFits(history, ncolumns) THEN Failed(path, "ValueError")
        ELSE IF ~DataFrameFits(history_scaled, ncolumns) THEN Failed(path, "ValueError")
        ELSE IF num_solutions = 0 THEN Failed(path, "ZeroDivisionError")
        ELSE AccessData(path,
                 << access_info.parameters,
                    num_solutions,
                    access_info.target_sigma,
                    access_info.random_seed,
                    [kind |-> history.kind, pop |-> history.pop, rows |-> history.len],
                    [kind |-> history_scaled.kind, pop |-> history_scaled.pop,
                     rows |-> history_scaled.len],
                    history.len \div num_solutions >>)

(* the run directories and paths explored *)

Parents == { <<".">>, <<"access_data">>, <<"old", ".csv">>,
             <<"opt_history", "_", "runs">> }
RunName == <<"access_info", "_", "0", "4", "2">>
PopSets == {{2}, {3}, {2, 3}}
Snapshots ==
    { [parameters |-> <<"fp1">>, target_sigma |-> 1, random_seed |-> 42],
      [parameters |-> <<"fp1", "fp2">>, target_sigma |-> 2, random_seed |-> 123] }

\* rows of a scaled table whose raw table has r rows: the same, or one less
\* when only the raw row of a candidate has been written
ScaledRows(r, lag) == IF r > 0 THEN r - lag ELSE 0

FileSystems ==
    { [parent |-> parent, name |-> RunName, reversed |-> reversed,
       pops |-> DOMAIN rows, rows |-> rows,
       rows_scaled |-> [n \in DOMAIN rows |-> ScaledRows(rows[n], lag)],
       snapshot |-> snapshot, extra |-> <<>>] :
         parent \in Parents, reversed \in BOOLEAN, snapshot \in Snapshots,
         lag \in {0, 1},
         rows \in UNION { [pops -> 0..MaxRows] : pops \in PopSets } }

\* the paths naming the run directory of f, or its parent
PathsTo(f) ==
    {RunPath(f), f.parent} \cup (IF f.parent = <<".">> THEN {f.name} ELSE {})

\* no reader at work: one empty run directory, nothing read
ReaderIdle ==
    /\ fs = [parent |-> <<".">>, name |-> RunName, reversed |-> FALSE,
             pops |-> {2}, rows |-> [n \in {2} |-> 0],
             rows_scaled |-> [n \in {2} |-> 0],
             snapshot |-> [parameters |-> <<"fp1">>, target_sigma |-> 1,
                           random_seed |-> 42],
             extra |-> <<>>]
    /\ rdView = NotCalled
    /\ ctorView = NotCalled
    /\ fpCalls = <<>>

InitReader ==
    /\ fs \in FileSystems
    /\ rdView = NotCalled
    /\ ctorView = NotCalled
    /\ fpCalls = <<>>

\* data = coexist.AccessData.read(path)
Read(path) ==
    /\ rdView' = AccessData_read(fs, path)
    /\ UNCHANGED <<fs, ctorView>>
    /\ UNCHANGED nonRdVars

\* data = coexist.AccessData(path)
ConstructByPath(path) ==
    /\ ctorView' = AccessData(path, <<path>>)
    /\ UNCHANGED <<fs, rdView>>
    /\ UNCHANGED nonRdVars

NextReader ==
    \/ \E path \in PathsTo(fs) : Read(path)
    \/ \E path \in PathsTo(fs) : ConstructByPath(path)

(* find_access_path called on its own, on run directories that hold more than
   the files of a run *)

\* what else a run directory may hold: a notes file, or a file or a directory
\* kept under a name that starts like a run directory's
ExtraEntries ==
    { <<>>,
      << [name |-> <<"notes">>, isdir |-> FALSE] >>,
      << [name |-> <<"access_info", "_", "old">>, isdir |-> TRUE] >>,
      << [name |-> <<"access_info", "_", "old", ".", "zip">>, isdir |-> FALSE] >> }

FinderFileSystems ==
    { [parent |-> parent, name |-> RunName, reversed |-> reversed,
       pops |-> pops, rows |-> [n \in pops |-> n],
       rows_scaled |-> [n \in pops |-> n],
       snapshot |-> [parameters |-> <<"fp1">>, target_sigma |-> 1,
                     random_seed |-> 42],
       extra |-> extra] :
         parent \in Parents, reversed \in BOOLEAN, pops \in PopSets,
         extra \in ExtraEntries }

InitFinder ==
    /\ fs \in FinderFileSystems
    /\ rdView = NotCalled
    /\ ctorView = NotCalled
    /\ fpCalls = <<>>

\* one call, its argument and what it gave
Call(f, path) ==
    [arg |-> path, ok |-> find_access_path(f, path).ok,
     path |-> find_access_path(f, path).path]

\* found = find_access_path(path), path naming the run directory or its parent
Find(path) ==
    /\ fpCalls = <<>>
    /\ fpCalls' = <<Call(fs, path)>>
    /\ UNCHANGED <<fs, rdView, ctorView>>
    /\ UNCHANGED nonFndVars

\* find_access_path(found): the function applied to its own result
FindAgain ==
    /\ Len(fpCalls) = 1
    /\ fpCalls[1].ok
    /\ fpCalls' = Append(fpCalls, Call(fs, fpCalls[1].path))
    /\ UNCHANGED <<fs, rdView, ctorView>>
    /\ UNCHANGED nonFndVars

NextFinder ==
    \/ \E path \in PathsTo(fs) : Find(path)
    \/ FindAgain

----------------------------------------------------------------------------
(* Simulation (src/coexist/base.py): one LIGGGHTS simulation and its handle *)

\* calls made on one Simulation object after its construction
MaxCalls == 2

(* Times and step sizes are exact fractions n / d, d > 0, in lowest terms. *)

Abs(n) == IF n < 0 THEN -n ELSE n

RECURSIVE GCD(_, _)
GCD(a, b) == IF b = 0 THEN a ELSE GCD(b, a % b)

Rat(n, d) ==
    LET g == GCD(Abs(n), d) IN [n |-> n \div g, d |-> d \div g]

Zero == Rat(0, 1)
One == Rat(1, 1)

RatLt(a, b) == a.n * b.d < b.n * a.d
RatAdd(a, b) == Rat(a.n * b.d + b.n * a.d, a.d * b.d)
RatSub(a, b) == Rat(a.n * b.d - b.n * a.d, a.d * b.d)
RatMul(a, b) == Rat(a.n * b.n, a.d * b.d)
\* a / b, b not zero
RatDiv(a, b) ==
    IF b.n > 0 THEN Rat(a.n * b.d, a.d * b.n) ELSE Rat(-(a.n * b.d), a.d * (-b.n))
\* floor(a)
RatFloor(a) == a.n \div a.d
\* int(a): towards zero
RatInt(a) == IF a.n >= 0 THEN a.n \div a.d ELSE -((-a.n) \div a.d)
\* a % b, b > 0: a - b * floor(a / b)
RatMod(a, b) == RatSub(a, RatMul(b, Rat(RatFloor(RatDiv(a, b)), 1)))

(* The commands sent to LIGGGHTS, and what they do to it. *)

TimestepCmd(x) ==
    [op |-> "timestep", x |-> x, upto |-> FALSE, post_no |-> FALSE, name |-> "",
     value |-> NaN, text |-> <<>>]
RunCmd(n, upto, post_no) ==
    [op |-> "run", x |-> n, upto |-> upto, post_no |-> post_no, name |-> "",
     value |-> NaN, text |-> <<>>]
VariableCmd(key, value) ==
    [op |-> "variable", x |-> Zero, upto |-> FALSE, post_no |-> FALSE, name |-> key,
     value |-> value, text |-> <<>>]
TextCmd(text) ==
    [op |-> "text", x |-> Zero, upto |-> FALSE, post_no |-> FALSE, name |-> "",
     value |-> NaN, text |-> text]

\* LIGGGHTS after a command: "timestep x", "run n", "run ts upto" (with or
\* without "post no"), "variable key equal value", or any other command
Engine(l, cmd) ==
    IF cmd.op = "timestep" THEN [l EXCEPT !.dt = cmd.x]
    ELSE IF cmd.op = "run" /\ ~cmd.upto
    THEN [l EXCEPT !.ntimestep = RatAdd(@, cmd.x),
                   !.atime = RatAdd(@, RatMul(cmd.x, l.dt))]
    ELSE IF cmd.op = "run"
    THEN [l EXCEPT !.ntimestep = cmd.x,
                   !.atime = RatAdd(@, RatMul(RatSub(cmd.x, l.ntimestep), l.dt))]
    ELSE IF cmd.op = "variable"
    THEN [l EXCEPT !.variables[cmd.name] = [defined |-> TRUE, value |-> cmd.value]]
    ELSE l

(* A call in progress: the object, the LIGGGHTS instance, the commands sent so
   far and the exception raised, if any. *)

\* self.simulation.command(cmd)
command(S, cmd) ==
    [S EXCEPT !.cmds = Append(@, cmd), !.lmp = Engine(S.lmp, cmd)]

Raise(S, exception) == [S EXCEPT !.raised = exception]

\* python truth value of None or of a number
Truthy(x) == ~x.none /\ x.k # 0

\* bool(x) as a python value
Bool(b) == Num(IF b THEN 1 ELSE 0)

\* the step_size property
step_size(S) == S.obj._step_size

\* the step_size setter
step_size_setter(S, new_step_size) ==
    IF RatLt(Zero, new_step_size) /\ RatLt(new_step_size, One)
    THEN command([S EXCEPT !.obj._step_size = new_step_size],
                 TimestepCmd(new_step_size))
    ELSE Raise(S, "ValueError")

\* the verbose property: the getter evaluates self._verbose and returns nothing
verbose(S) == None

\* the verbose setter
verbose_setter(S, v) == [S EXCEPT !.obj._verbose = Bool(Truthy(v))]

\* Simulation.step(num_steps)
step(S, num_steps) ==
    IF Truthy(verbose(S))
    THEN command(S, RunCmd(num_steps, FALSE, FALSE))
    ELSE command(S, RunCmd(num_steps, FALSE, TRUE))

\* Simulation.timestep(), Simulation.time()
timestep(S) == S.lmp.ntimestep
time(S) == S.lmp.atime

\* Simulation.step_to(timestamp)
step_to(S, timestamp) ==
    IF RatLt(timestamp, timestep(S)) THEN Raise(S, "ValueError")
    ELSE IF Truthy(verbose(S))
    THEN command(S, RunCmd(timestamp, TRUE, FALSE))
    ELSE command(S, RunCmd(timestamp, TRUE, TRUE))

\* Simulation.step_time(time)
step_time(S, t) ==
    LET divisor == RatInt(RatDiv(t, step_size(S))) + 1
        new_dt == RatDiv(t, Rat(divisor, 1))
        steps == RatDiv(t, new_dt)
        old_dt == step_size(S)
        S1 == step_size_setter(S, new_dt)
        S2 == step(S1, steps)
        S3 == step_size_setter(S2, old_dt)
    IN  IF divisor = 0 \/ new_dt = Zero THEN Raise(S, "ZeroDivisionError")
        ELSE IF S1.raised # "" THEN S1
        ELSE IF S2.raised # "" THEN S2
        ELSE S3

\* Simulation.step_to_time(time): the name `nsteps` is bound nowhere
step_to_time(S, t) ==
    LET rest_time == RatMod(RatSub(t, time(S)), step_size(S))
        n_steps == RatDiv(RatSub(RatSub(t, time(S)), rest_time), step_size(S))
    IN  IF RatLt(t, time(S)) THEN Raise(S, "ValueError")
        ELSE Raise(S, "NameError")

\* str(x) of a float: its count of 1/Scale units stands for its digits
str(x) == IF x.nan THEN "nan" ELSE ToString(x.v)

\* Simulation.variable(var_name): the LIGGGHTS variable, or None
variable(S, var_name) ==
    IF var_name \in DOMAIN S.lmp.variables /\ S.lmp.variables[var_name].defined
    THEN [none |-> FALSE, value |-> S.lmp.variables[var_name].value]
    ELSE [none |-> TRUE, value |-> NaN]

\* a substitution that writes `value` for every variable
replace_var_any(S, key, value, var) == str(value)

\* replace_var(match), var the name between "${" and "}"
replace_var(S, key, value, var) ==
    IF var = key THEN str(value)
    ELSE IF variable(S, var).none THEN "None"
    ELSE str(variable(S, var).value)

\* re.sub("\$\{\w+\}", replace_var, cmd), from token i on
RECURSIVE re_sub(_, _, _, _, _)
re_sub(S, key, value, cmd, i) ==
    IF i > Len(cmd) THEN <<>>
    ELSE IF /\ cmd[i] = "${"
            /\ i + 2 <= Len(cmd)
            /\ IsWord(cmd[i + 1])
            /\ cmd[i + 2] = "}"
    THEN <<replace_var(S, key, value, cmd[i + 1])>> \o re_sub(S, key, value, cmd, i + 3)
    ELSE <<cmd[i]>> \o re_sub(S, key, value, cmd, i + 1)

\* the row of `key` in the parameters index
loc(parameters, key) == CHOOSE i \in DOMAIN parameters.index : parameters.index[i] = key

\* Simulation.__setitem__(key, value)
setitem(S, key, value) ==
    IF ~(\E i \in DOMAIN S.obj.parameters.index : S.obj.parameters.index[i] = key)
    THEN Raise(S, "AttributeError")
    ELSE LET row == loc(S.obj.parameters, key)
             cmd == re_sub(S, key, value, S.obj.parameters.command[row], 1)
             S1 == command(S, TextCmd(cmd))
             S2 == command(S1, VariableCmd(key, value))
         IN  [S2 EXCEPT !.obj.parameters.value[row] = value]

\* for idx in self.parameters.index: self[idx] = self.parameters.loc[idx, "value"]
RECURSIVE set_all(_, _)
set_all(S, i) ==
    IF i > Len(S.obj.parameters.index) \/ S.raised # "" THEN S
    ELSE set_all(setitem(S, S.obj.parameters.index[i], S.obj.parameters.value[i]), i + 1)

\* liggghts() / liggghts(cmdargs = ["-screen", "/dev/null"]) after
\* self.simulation.file(simulation)
Liggghts(script, screen) ==
    [dt |-> script.dt, atime |-> Zero, ntimestep |-> Zero,
     variables |-> script.variables, screen |-> screen]

\* Simulation.__init__(simulation, parameters, verbose)
Simulation(script, parameters, verbose_arg) ==
    LET _verbose == Bool(Truthy(verbose_arg))
        simulation == Liggghts(script, Truthy(_verbose))
        S == [obj |-> [alive |-> TRUE, _verbose |-> _verbose,
                       _step_size |-> simulation.dt, parameters |-> parameters],
              lmp |-> simulation, cmds |-> <<>>, raised |-> ""]
    IN  set_all(S, 1)

(* the scripts, tables and arguments explored *)

\* timesteps a script may set: __init__ takes the script's dt as it is
ScriptTimesteps == {Rat(1, 5), Rat(1, 2), Rat(1, 1)}

Undefined == [defined |-> FALSE, value |-> NaN]
Defined(k) == [defined |-> TRUE, value |-> Float(k)]

\* the variables a script defines: all of them, or all but corPW2
ScriptVariables ==
    { [v \in {ParamNames[i] : i \in DOMAIN ParamNames} |->
           IF v = "corPW2" /\ ~third THEN Undefined ELSE Defined(4)] :
      third \in BOOLEAN }

Scripts == [dt : ScriptTimesteps, variables : ScriptVariables]

\* the Parameters tables handed to a Simulation, of distinct names (with a
\* name twice in the index, __init__ raises at its first self[idx] = ...)
SimTables ==
    { ParametersInit(variables, [i \in DOMAIN variables |-> GoodCommand(i)],
                     [i \in DOMAIN variables |-> Num(i)],
                     [i \in DOMAIN variables |-> Num(0)],
                     [i \in DOMAIN variables |-> Num(3)],
                     [none |-> TRUE, list |-> <<>>]) :
        variables \in UNION { NameSeqs(n) : n \in 1..MaxLen } }

VerboseChoices == {Bool(TRUE), Bool(FALSE), None}
StepSizeChoices == {Rat(-1, 5), Zero, Rat(1, 5), Rat(1, 2), One, Rat(6, 5)}
TimeChoices == {Rat(-1, 2), Zero, Rat(1, 5), Rat(1, 2), One, Rat(3, 2)}
NumStepsChoices == {Zero, Rat(1, 1), Rat(3, 1)}
KeyChoices == {"corPP", "corPW", "corPW2", "youngmodP"}
ValueChoices == {[nan |-> FALSE, v |-> 2], [nan |-> FALSE, v |-> 7]}

NoSimulation ==
    [alive |-> FALSE, _verbose |-> Bool(FALSE), _step_size |-> Zero,
     parameters |-> NoTable]
NoLiggghts ==
    [dt |-> Zero, atime |-> Zero, ntimestep |-> Zero,
     variables |-> [v \in {ParamNames[i] : i \in DOMAIN ParamNames} |-> Undefined],
     screen |-> FALSE]
NoCall ==
    [op |-> "", num |-> Zero, key |-> "", value |-> NaN, arg |-> None,
     before |-> [obj |-> NoSimulation, lmp |-> NoLiggghts], raised |-> ""]

InitSimulation ==
    /\ simObj = NoSimulation
    /\ lmp = NoLiggghts
    /\ simCmds = <<>>
    /\ simCall = NoCall
    /\ simCalls = 0

\* the call in progress, at its start
Self == [obj |-> simObj, lmp |-> lmp, cmds |-> <<>>, raised |-> ""]

\* the state after a call that ended as S
Called(op, num, key, value, arg, S) ==
    /\ simObj' = S.obj
    /\ lmp' = S.lmp
    /\ simCmds' = S.cmds
    /\ simCall' = [op |-> op, num |-> num, key |-> key, value |-> value, arg |-> arg,
                   before |-> [obj |-> simObj, lmp |-> lmp], raised |-> S.raised]
    /\ UNCHANGED nonSimVars

\* simulation = Simulation(script, parameters, verbose)
SimConstruct ==
    /\ ~simObj.alive
    /\ \E script \in Scripts, parameters \in SimTables, v \in VerboseChoices :
          Called("__init__", Zero, "", NaN, v, Simulation(script, parameters, v))
    /\ simCalls' = 0

CanCall == simObj.alive /\ simCalls < MaxCalls

\* simulation.verbose = v
SetVerbose ==
    /\ CanCall
    /\ \E v \in VerboseChoices :
          Called("verbose", Zero, "", NaN, v, verbose_setter(Self, v))
    /\ simCalls' = simCalls + 1

\* simulation.step_size = x
SetStepSize ==
    /\ CanCall
    /\ \E x \in StepSizeChoices :
          Called("step_size", x, "", NaN, None, step_size_setter(Self, x))
    /\ simCalls' = simCalls + 1

\* simulation.step(n)
Step ==
    /\ CanCall
    /\ \E n \in NumStepsChoices : Called("step", n, "", NaN, None, step(Self, n))
    /\ simCalls' = simCalls + 1

\* simulation.step_to(ts)
StepTo ==
    /\ CanCall
    /\ \E ts \in NumStepsChoices : Called("step_to", ts, "", NaN, None, step_to(Self, ts))
    /\ simCalls' = simCalls + 1

\* simulation.step_time(t)
StepTime ==
    /\ CanCall
    /\ \E t \in TimeChoices : Called("step_time", t, "", NaN, None, step_time(Self, t))
    /\ simCalls' = simCalls + 1

\* simulation.step_to_time(t)
StepToTime ==
    /\ CanCall
    /\ \E t \in TimeChoices :
          Called("step_to_time", t, "", NaN, None, step_to_time(Self, t))
    /\ simCalls' = simCalls + 1

\* simulation[key] = value
SetItem ==
    /\ CanCall
    /\ \E key \in KeyChoices, value \in ValueChoices :
          Called("__setitem__", Zero, key, value, None, setitem(Self, key, value))
    /\ simCalls' = simCalls + 1

NextSimulation ==
    \/ SimConstruct
    \/ SetVerbose
    \/ SetStepSize
    \/ Step
    \/ StepTo
    \/ StepTime
    \/ StepToTime
    \/ SetItem

----------------------------------------------------------------------------
(* Specifications *)

Init == InitDriver /\ InitParameters /\ ReaderIdle /\ InitSimulation

SpecDriver == Init /\ [][NextDriver]_vars

SpecParameters == Init /\ [][NextParameters]_vars

InitRead == InitDriver /\ InitParameters /\ InitReader /\ InitSimulation

SpecReader == InitRead /\ [][NextReader]_vars

InitFind == InitDriver /\ InitParameters /\ InitFinder /\ InitSimulation

SpecFinder == InitFind /\ [][NextFinder]_vars

SpecSimulation == Init /\ [][NextSimulation]_vars

----------------------------------------------------------------------------
(* Claims about the Epoch Driver *)

PostBarrier == {"Scoring", "TellingOptimiser", "Persisting", "CheckingTermination"}
Scored == {"TellingOptimiser", "Persisting", "CheckingTermination"}

\* rows of the whole epochs on disk
CountedRows == 1..(NumSolutions * (Len(historyRows) \div NumSolutions))

\* C1: crash resilience. Whatever subset of an epoch's candidates crashes, the
\* epoch completes with exactly num_solutions scored rows, every crashed
\* candidate carries the (finite) penalty sentinel with crashed = true, a crash
\* never aborts the driver (only a failed submission does), and the driver can
\* always move on once every candidate has a result.
C1_CrashResilience ==
    /\ pc \in PostBarrier =>
          \A i \in Candidates :
             /\ ~results[i].none
             /\ results[i].crashed => results[i].raw = <<Penalty>>
    /\ pc \in Scored =>
          /\ DOMAIN scores = Candidates
          /\ \A i \in Candidates :
                results[i].crashed => scores[i] = Penalty
    /\ \A k \in CountedRows :
          /\ historyRows[k].error \in Nat
          /\ historyRows[k].crashed => historyRows[k].error = Penalty
    /\ pc = "Aborted" => \E i \in Candidates : jobs[i] = "created"
    /\ (pc = "AwaitingEpochBarrier" /\ AllDone) => ENABLED AwaitBarrier
    /\ pc \in PostBarrier => ENABLED (Score \/ Tell \/ PersistRow \/ CheckTermination)

\* an epoch in which every candidate crashed was persisted whole, and the
\* uninterrupted run is asking for the next epoch
C1_Witness ==
    /\ pc = "AskingPopulation"
    /\ epoch = 1
    /\ restarts = 0
    /\ Len(historyRows) = NumSolutions
    /\ \A k \in 1..NumSolutions : historyRows[k].crashed /\ historyRows[k].error = Penalty

\* C2: hard epoch barrier. The optimiser is told epoch N only with a result
\* (success or crash sentinel) for every one of the num_solutions candidates,
\* and epoch N+1 is asked only after epoch N has been told.
C2_HardBarrier ==
    /\ es.X # <<>> =>
          /\ DOMAIN es.E = Candidates
          /\ DOMAIN es.X = Candidates
          /\ \A i \in Candidates : es.E[i] >= 0
    /\ pc = "AskingPopulation" => (es.asked = epoch /\ es.told = epoch)
    /\ pc \in {"DispatchingCandidates", "AwaitingEpochBarrier", "Scoring",
               "TellingOptimiser"} => (es.asked = epoch + 1 /\ es.told = epoch)
    /\ pc \in {"Persisting", "CheckingTermination"} =>
          (es.asked = epoch + 1 /\ es.told = epoch + 1)

\* the second epoch has been told, its last result having come from candidate 1
C2_Witness ==
    /\ pc = "Persisting"
    /\ es.told = 2
    /\ Len(arrival) = NumSolutions
    /\ arrival[NumSolutions] = 1

\* C3: index alignment. Whatever the order in which the candidates finish, the
\* i-th scalar error told is the error of the i-th vector asked for that epoch.
C3_IndexAligned ==
    es.X # <<>> =>
       /\ es.X = Ask(es.told - 1)
       /\ \A i \in Candidates :
             es.E[i] \in {SumSeq(Objective(es.X[i])), Penalty}

\* told after the candidates finished in reverse order, all successful
C3_Witness ==
    /\ es.X # <<>>
    /\ pc = "Persisting"
    /\ arrival = [k \in Candidates |-> NumSolutions + 1 - k]
    /\ \A i \in Candidates : ~results[i].crashed

\* the counted epochs on disk are whole epochs in order, and an epoch whose
\* candidates are being evaluated is not one of them
C4_CountedWhole ==
    /\ \A k \in CountedRows :
          /\ historyRows[k].epoch = (k - 1) \div NumSolutions
          /\ historyRows[k].index = ((k - 1) % NumSolutions) + 1
    /\ pc \in {"DispatchingCandidates", "AwaitingEpochBarrier", "Scoring",
               "TellingOptimiser"} => epoch = Len(historyRows) \div NumSolutions

----------------------------------------------------------------------------
(* Claims about Parameters *)

Constructed == pArgs.called

Present(xs, i) == i \in DOMAIN xs /\ ~xs[i].none

\* what the constructor must reject, read off its arguments
LengthsMismatch ==
    \E a, b \in {Len(pArgs.variables), Len(pArgs.commands),
                 Len(pArgs.initial_values), Len(pArgs.minimums),
                 Len(pArgs.maximums)} : a # b
BoundsInverted ==
    \E i \in DOMAIN pArgs.minimums :
       /\ Present(pArgs.minimums, i)
       /\ Present(pArgs.maximums, i)
       /\ pArgs.minimums[i].k >= pArgs.maximums[i].k
SigmaMismatch ==
    ~pArgs.sigma0.none /\ Len(pArgs.sigma0.list) # Len(pArgs.variables)
NoPlaceholder ==
    \E c \in DOMAIN pArgs.commands :
       \A i \in DOMAIN pArgs.commands[c] :
          ~( /\ pArgs.commands[c][i] = "${"
             /\ \E j \in DOMAIN pArgs.commands[c] :
                   /\ j > i + 1
                   /\ pArgs.commands[c][j] = "}"
                   /\ \A k \in (i + 1)..(j - 1) :
                         pArgs.commands[c][k] \notin {"${", "}", " "} )
Invalid == LengthsMismatch \/ BoundsInverted \/ SigmaMismatch \/ NoPlaceholder

\* C8: Parameters(...) raises ValueError and constructs nothing whenever the
\* lengths mismatch, a minimum is >= its maximum, a supplied sigma0 has
\* another length than the variables, or a command has no ${name}
\* placeholder; otherwise it constructs the table.
C8_Validation ==
    Constructed =>
       /\ Invalid => (pTable.status = "ValueError" /\ pTable.index = <<>>
                      /\ pTable.sigma = <<>> /\ pTable.command = <<>>)
       /\ ~Invalid => (pTable.status = "ok" /\ pTable.index = pArgs.variables)

\* rejected for the one reason that the second minimum equals its maximum
C8_Witness ==
    /\ Constructed
    /\ pTable.status = "ValueError"
    /\ ~LengthsMismatch /\ ~SigmaMismatch /\ ~NoPlaceholder
    /\ Len(pArgs.minimums) = 2
    /\ pArgs.minimums[2] = Num(1) /\ pArgs.maximums[2] = Num(1)
    /\ pArgs.minimums[1] = Num(0) /\ pArgs.maximums[1] = Num(3)

AllBounded ==
    \A i \in DOMAIN pArgs.minimums :
       Present(pArgs.minimums, i) /\ Present(pArgs.maximums, i)

\* C9: for valid arguments with min < max for every parameter and no sigma0,
\* sigma of each parameter is 0.2 * (max - min) of that parameter, and the rows
\* of the table are in the order of the variable names given.
C9_DefaultSigma ==
    (Constructed /\ ~Invalid /\ AllBounded /\ pArgs.sigma0.none) =>
       /\ pTable.status = "ok"
       /\ pTable.index = pArgs.variables
       /\ pTable.command = pArgs.commands
       /\ DOMAIN pTable.sigma = DOMAIN pArgs.variables
       /\ \A i \in DOMAIN pArgs.variables :
             /\ ~pTable.sigma[i].nan
             /\ 5 * pTable.sigma[i].v =
                   Scale * (pArgs.maximums[i].k - pArgs.minimums[i].k)
             /\ pTable.min[i].v = Scale * pArgs.minimums[i].k
             /\ pTable.max[i].v = Scale * pArgs.maximums[i].k
             /\ pTable.value[i].v = Scale * pArgs.initial_values[i].k

\* two parameters given in reversed name order, with bounds [1, 3] and [0, 1]
C9_Witness ==
    /\ Constructed /\ ~Invalid /\ AllBounded /\ pArgs.sigma0.none
    /\ pTable.status = "ok"
    /\ pArgs.variables = <<"corPW", "corPP">>
    /\ pArgs.minimums = <<Num(1), Num(0)>>
    /\ pArgs.maximums = <<Num(3), Num(1)>>

\* C10: every constructed table has a resolvable sigma for every parameter:
\* with an absent (None) minimum or maximum and no sigma0, no table is built.
C10_SigmaResolvable ==
    /\ pTable.status = "ok" => \A i \in DOMAIN pTable.sigma : ~pTable.sigma[i].nan
    /\ (Constructed /\ pArgs.sigma0.none /\ ~AllBounded) => pTable.status # "ok"

----------------------------------------------------------------------------
(* Claims about the Run Reader *)

\* the run directory holds the tables of whole epochs, raw and scaled alike
WholeRun ==
    \A n \in fs.pops :
       /\ fs.rows[n] >= n
       /\ fs.rows[n] % n = 0
       /\ fs.rows_scaled[n] = fs.rows[n]

\* C5: round trip of the Run Reader. For a run directory, whatever its path,
\* holding a snapshot and the history tables of a run, AccessData.read returns
\* the snapshot's parameters, random_seed and target_sigma, num_solutions equal
\* to the population size in the name of the raw table it loads, and the
\* scaled table paired with that raw table.
C5_RoundTrip ==
    (rdView.called /\ WholeRun) =>
       /\ rdView.status = "ok"
       /\ rdView.parameters = fs.snapshot.parameters
       /\ rdView.random_seed = fs.snapshot.random_seed
       /\ rdView.target_sigma = fs.snapshot.target_sigma
       /\ rdView.results.kind = "raw"
       /\ rdView.results.pop \in fs.pops
       /\ rdView.num_solutions = rdView.results.pop
       /\ rdView.results_scaled.kind = "scaled"
       /\ rdView.results_scaled.pop = rdView.results.pop

\* C6: whatever the run directory holds, a half-written trailing epoch
\* included, the tables AccessData.read returns have exactly
\* num_epochs * num_solutions rows, num_epochs being the rows of the history
\* table divided by the population size.
C6_WholeEpochRows ==
    rdView.status = "ok" =>
       /\ rdView.num_epochs = fs.rows[rdView.results.pop] \div rdView.num_solutions
       /\ rdView.results.rows = rdView.num_epochs * rdView.num_solutions
       /\ rdView.results_scaled.rows = rdView.num_epochs * rdView.num_solutions

ViewOf(v) == [v EXCEPT !.path = <<>>]

\* C7: for every run directory path p, AccessData(p) and AccessData.read(p)
\* both succeed and return the same view.
C7_ConstructLikeRead ==
    /\ ctorView.called => ctorView.status = "ok"
    /\ (ctorView.called /\ rdView.called /\ ctorView.path = rdView.path) =>
          (rdView.status = "ok" /\ ViewOf(ctorView) = ViewOf(rdView))

----------------------------------------------------------------------------
(* Claims about find_access_path *)

\* index of the first token of the last component of a path
RECURSIVE LastStart(_, _)
LastStart(path, i) ==
    IF i = 0 THEN 1
    ELSE IF path[i] = "/" THEN i + 1
    ELSE LastStart(path, i - 1)

\* the last component of a path
Basename(path) == SubSeq(path, LastStart(path, Len(path)), Len(path))

\* the path names the run directory itself
IsRunDirectory(path) == StartsWith(Basename(path), AccessInfoPrefix)

\* C11: find_access_path returns its input unchanged whenever the last
\* component of the input starts with "access_info_", whatever the parent
\* components before it and whatever the directory holds; given the parent
\* directory it returns the child whose name starts with "access_info_"; and
\* applied to its own result it returns that result.
C11_FindAccessPath ==
    /\ \A i \in DOMAIN fpCalls :
          IsRunDirectory(fpCalls[i].arg) =>
             (fpCalls[i].ok /\ fpCalls[i].path = fpCalls[i].arg)
    /\ (fpCalls # <<>> /\ fpCalls[1].arg = fs.parent) =>
          (fpCalls[1].ok /\ fpCalls[1].path = join(fs.parent, fs.name))
    /\ Len(fpCalls) = 2 =>
          (fpCalls[2].ok /\ fpCalls[2].path = fpCalls[1].path)

----------------------------------------------------------------------------
(* Claims about Simulation *)

\* the object and the LIGGGHTS instance the last call started from
Before == simCall.before

\* C12: step_to_time(t) with t at or after the current simulation time runs
\* the simulation up to time t and returns with step_size equal to its value
\* before the call; with t below the current time it raises ValueError and
\* sends no command.
C12_StepToTime ==
    simCall.op = "step_to_time" =>
       IF RatLt(simCall.num, Before.lmp.atime)
       THEN simCall.raised = "ValueError" /\ simCmds = <<>>
       ELSE /\ simCall.raised = ""
            /\ lmp.atime = simCall.num
            /\ simObj._step_size = Before.obj._step_size

\* C13: after any sequence of constructor and verbose-setter calls, step(n)
\* and step_to(ts) send the plain command ("run n", "run ts upto") when
\* verbose is true and the "post no" variant only when verbose is false.
C13_VerboseGoverns ==
    (simCall.op \in {"step", "step_to"} /\ simCall.raised = "") =>
       /\ Len(simCmds) = 1
       /\ simCmds[1].op = "run"
       /\ simCmds[1].x = simCall.num
       /\ simCmds[1].upto = (simCall.op = "step_to")
       /\ simCmds[1].post_no = ~Truthy(Before.obj._verbose)

\* the rows of a parameters table
Rows(parameters) == DOMAIN parameters.index

\* `key` names a row of the table
Known(parameters, key) == \E i \in Rows(parameters) : parameters.index[i] = key

\* the tokens where a placeholder "${var}" of a template starts
Placeholders(template) ==
    { i \in DOMAIN template :
         /\ template[i] = "${"
         /\ i + 2 \in DOMAIN template
         /\ IsWord(template[i + 1])
         /\ template[i + 2] = "}" }

\* the tokens of a template that stay or start a placeholder, in order
Kept(template) ==
    { i \in DOMAIN template :
         (i - 1) \notin Placeholders(template) /\ (i - 2) \notin Placeholders(template) }

\* the j-th smallest member of a set of numbers
Nth(set, j) == CHOOSE i \in set : Cardinality({k \in set : k < i}) = j - 1

\* what stands for "${var}" once `key` is set to `value`: the value, or else
\* the value LIGGGHTS held for var when the call started
Substitute(var, key, value) ==
    IF var = key THEN str(value)
    ELSE IF var \in DOMAIN Before.lmp.variables /\ Before.lmp.variables[var].defined
    THEN str(Before.lmp.variables[var].value)
    ELSE "None"

\* the command expected for a template
Expected(template, key, value) ==
    [j \in 1..Cardinality(Kept(template)) |->
        LET i == Nth(Kept(template), j) IN
        IF i \in Placeholders(template)
        THEN Substitute(template[i + 1], key, value)
        ELSE template[i]]

\* C14: simulation[key] = value with a key outside the parameters index
\* raises AttributeError, sends no command and leaves the table unchanged;
\* with a known key it sends the key's command template with ${key} replaced
\* by value and every other ${var} by the simulator's current value of var,
\* sets the simulator variable key to value, sets parameters[key].value to
\* value, and leaves every other value, and every command, bound and sigma,
\* unchanged.
C14_SetItem ==
    simCall.op = "__setitem__" =>
       LET old == Before.obj.parameters
           new == simObj.parameters
           key == simCall.key
           value == simCall.value
       IN  IF ~Known(old, key)
           THEN /\ simCall.raised = "AttributeError"
                /\ simCmds = <<>>
                /\ new = old
                /\ lmp = Before.lmp
           ELSE /\ simCall.raised = ""
                /\ Len(simCmds) = 2
                /\ simCmds[1].op = "text"
                /\ simCmds[1].text = Expected(old.command[loc(old, key)], key, value)
                /\ simCmds[2] = VariableCmd(key, value)
                /\ lmp.variables[key] = [defined |-> TRUE, value |-> value]
                /\ \A v \in DOMAIN lmp.variables :
                      v # key => lmp.variables[v] = Before.lmp.variables[v]
                /\ new.index = old.index
                /\ new.command = old.command
                /\ new.min = old.min
                /\ new.max = old.max
                /\ new.sigma = old.sigma
                /\ \A i \in Rows(old) :
                      new.value[i] = IF old.index[i] = key THEN value ELSE old.value[i]

\* a parameter was set whose template names itself and another variable that
\* LIGGGHTS holds at a value other than the one set, next to another parameter
C14_Witness ==
    /\ simCall.op = "__setitem__"
    /\ simCall.raised = ""
    /\ Len(simObj.parameters.index) = 2
    /\ Len(simCmds) = 2
    /\ simCmds[1].text = <<"fix", " ", str(simCall.value), " ", str(Float(4))>>
    /\ simObj.parameters.value[loc(simObj.parameters, simCall.key)] = simCall.value

\* C15: assigning step_size a value x with 0 < x < 1 sets the step size to x
\* and sends "timestep x"; any other x raises ValueError, sends no command
\* and leaves step_size unchanged; and step_time(time) for time > 0 returns
\* with step_size equal to its value before the call.
C15_StepSizeValidity ==
    /\ simCall.op = "step_size" =>
          IF RatLt(Zero, simCall.num) /\ RatLt(simCall.num, One)
          THEN /\ simCall.raised = ""
               /\ simObj._step_size = simCall.num
               /\ simCmds = <<TimestepCmd(simCall.num)>>
          ELSE /\ simCall.raised = "ValueError"
               /\ simCmds = <<>>
               /\ simObj._step_size = Before.obj._step_size
    /\ (simCall.op = "step_time" /\ RatLt(Zero, simCall.num)) =>
          /\ simCall.raised = ""
          /\ simObj._step_size = Before.obj._step_size

====
